---- MODULE Spec2Model ----
(***************************************************************************)
(* REDQLoss_deprecated / DoubleREDQLoss_deprecated                         *)
(* (torchrl/objectives/deprecated.py) as a state machine.                  *)
(*                                                                         *)
(* One loss module object is constructed (Init), after which its           *)
(* properties are read, its keys are reconfigured, value estimators are    *)
(* installed, the optimizer moves log_alpha, and forward is called.        *)
(*                                                                         *)
(* Numbers.  The entropy coefficient lives in float32 buffers.  A float32  *)
(* in the alpha domain is written as an integer count of 2^-27 (so 1.0 is  *)
(* 134217728 and float32(0.1) is 13421773); a float32 in the log domain   *)
(* is an integer count of 2^-24.  Log and Exp are the round-to-nearest     *)
(* float32 results of ln and exp on the values the model uses.             *)
(***************************************************************************)
EXTENDS Integers, Sequences, FiniteSets, TLC

\* ------------------------------------------------------------------ bounds

\* num_qvalue_nets ranges over 1..MaxNets
MaxNets == 3
\* an action spec has at most MaxDims dimensions, each of size 1..MaxDims
MaxDims == 2

None == "None"

\* Python optionals whose value is not a string: Nil is None, Some(v) is v.
Nil == <<>>
Some(v) == <<v>>
Get(o) == o[1]

\* 1.0 in the alpha domain (2^27 counts of 2^-27)
One == 2^27

\* ------------------------------------------------------------ float32 maps

\* The alpha-domain float32 values constructor arguments are drawn from:
\* 0.1, 0.5, 1.0, 2.0, 10.0  (0.1 is float32(0.1) = 13421773 * 2^-27).
AlphaGrid == {13421773, 67108864, 134217728, 268435456, 1342177280}

\* Tensor.log() on a float32 of AlphaGrid.
Log(a) ==
  CASE a = 13421773   -> -38630968
    [] a = 67108864   -> -11629080
    [] a = 134217728  -> 0
    [] a = 268435456  -> 11629080
    [] a = 1342177280 -> 38630968

\* The log-domain values log_alpha takes: the logs of AlphaGrid and +-2.5.
LogGrid == {Log(a) : a \in AlphaGrid} \cup {-41943040, 41943040}

\* Tensor.exp() on a float32 of LogGrid.
Exp(l) ==
  CASE l = -41943040 -> 11017262
    [] l = -38630968 -> 13421772
    [] l = -11629080 -> 67108864
    [] l = 0         -> 134217728
    [] l = 11629080  -> 268435456
    [] l = 38630968  -> 1342177280
    [] l = 41943040  -> 1635106688

Max(a, b) == IF a >= b THEN a ELSE b
Min(a, b) == IF a <= b THEN a ELSE b

\* Tensor.clamp(min, max): max(x, min) first, then min(., max).
ClampMutNone(x, lo, hi) == x

Clamp(x, lo, hi) == Min(Max(x, lo), hi)

\* ------------------------------------------------------------------- state

VARIABLES
  cls,                    \* the class instantiated
  ctor,                   \* the constructor's keyword arguments, as given
  delay_qvalue,           \* self.delay_qvalue
  target_params_created,  \* create_target_params given for the critics
  num_qvalue_nets,        \* self.num_qvalue_nets
  sub_sample_len,         \* self.sub_sample_len
  min_log_alpha,          \* buffer
  max_log_alpha,          \* buffer
  log_alpha,              \* parameter (buffer when fixed_alpha)
  fixed_alpha,            \* self.fixed_alpha
  target_entropy_buffer,  \* None, a tensor, or removed by delattr
  tensor_keys,            \* self.tensor_keys
  reduction,              \* self.reduction
  value_type,             \* self.value_type
  value_estimator,        \* self._value_estimator
  tensordict,             \* entries forward wrote into its input tensordict
  last                    \* outcome of the most recent call

vars == <<cls, ctor, delay_qvalue, target_params_created, num_qvalue_nets,
          sub_sample_len, min_log_alpha, max_log_alpha, log_alpha, fixed_alpha,
          target_entropy_buffer, tensor_keys, reduction, value_type,
          value_estimator, tensordict, last>>

config == <<cls, ctor, delay_qvalue, target_params_created, num_qvalue_nets,
            sub_sample_len, min_log_alpha, max_log_alpha, fixed_alpha,
            reduction>>

\* target_entropy_buffer: the attribute holds None, holds a tensor, or has
\* been removed by delattr.
BufferNone == [attr |-> "None", value |-> 0]
BufferDeleted == [attr |-> "deleted", value |-> 0]
BufferTensor(v) == [attr |-> "tensor", value |-> v]

\* The target_entropy keyword: "auto" or a number.
Auto == [kind |-> "auto", value |-> 0]
Number(v) == [kind |-> "number", value |-> v]

Classes == {"REDQLoss_deprecated", "DoubleREDQLoss_deprecated"}

\* ------------------------------------------------------------- constructor

\* ValueEstimators (torchrl.objectives.utils), as imported at line 20.
ValueEstimators == {"TD0", "TD1", "TDLambda", "GAE", "VTrace"}

\* default_value_estimator = ValueEstimators.TD0
default_value_estimator == "TD0"

\* _AcceptedKeys: the defaults of the configurable keys.
default_keys ==
  [action |-> "action", state_action_value |-> "state_action_value",
   value |-> "state_value", log_prob |-> "sample_log_prob",
   priority |-> "td_error", reward |-> "reward", done |-> "done",
   terminated |-> "terminated"]

\* The class attribute delay_qvalue: DoubleREDQLoss_deprecated declares True,
\* REDQLoss_deprecated declares none (only delay_actor).
ClassDelayQvalue(c) ==
  IF c = "DoubleREDQLoss_deprecated" THEN Some(TRUE) ELSE Nil

\* The default of __init__'s delay_qvalue keyword, shared by both classes.
SignatureDelayQvalue == TRUE

\* self.delay_qvalue = delay_qvalue
DelayQvalue(c, arg) == IF arg = Nil THEN SignatureDelayQvalue ELSE Get(arg)

\* self.sub_sample_len = max(1, min(sub_sample_len, num_qvalue_nets - 1))
SubSampleLen(ssl, n) == Max(1, Min(ssl, n - 1))

\* _set_deprecated_ctor_keys(priority_key=priority_key)
CtorKeys(priority_key) ==
  IF priority_key = None THEN default_keys
  ELSE [default_keys EXCEPT !.priority = priority_key]

\* reduction defaults to "mean"
Reduction(arg) == IF arg = None THEN "mean" ELSE arg

NoCall ==
  [op |-> "__init__", exc |-> None, ret |-> 0, inp |-> None, fwd |-> None]

\* __init__ with keyword arguments a on class c.  value_type and
\* _value_estimator are as LossModule.__init__ leaves them.
Construct(c, a) ==
  /\ cls = c
  /\ ctor = a
  /\ delay_qvalue = DelayQvalue(c, a.delay_qvalue)
  /\ target_params_created = DelayQvalue(c, a.delay_qvalue)
  /\ num_qvalue_nets = a.num_qvalue_nets
  /\ sub_sample_len = SubSampleLen(a.sub_sample_len, a.num_qvalue_nets)
  /\ min_log_alpha = Log(a.min_alpha)
  /\ max_log_alpha = Log(a.max_alpha)
  /\ log_alpha = Log(a.alpha_init)
  /\ fixed_alpha = a.fixed_alpha
  /\ target_entropy_buffer = BufferNone
  /\ tensor_keys = CtorKeys(a.priority_key)
  /\ reduction = Reduction(a.reduction)
  /\ value_type = default_value_estimator
  /\ value_estimator = Nil
  /\ tensordict = {}
  /\ last = NoCall

\* The keyword arguments the specifications start from: the signature's
\* defaults, with two critics instead of ten and an actor whose spec has
\* shape (2,).  action_spec and the actor's spec are shapes or None.
BaseArgs ==
  [num_qvalue_nets |-> 2, sub_sample_len |-> 2, alpha_init |-> One,
   min_alpha |-> 13421773, max_alpha |-> 1342177280, action_spec |-> Nil,
   actor_spec |-> Some(<<2>>), fixed_alpha |-> FALSE, target_entropy |-> Auto,
   delay_qvalue |-> Nil, priority_key |-> None, reduction |-> None]

\* --------------------------------------------------------- target_entropy

RECURSIVE Prod(_)
Prod(shape) == IF shape = <<>> THEN 1 ELSE Head(shape) * Prod(Tail(shape))

\* action_spec if action_spec is not None else getattr(actor_network, "spec", None)
ActionSpec(a) == IF a.action_spec # Nil THEN a.action_spec ELSE a.actor_spec

\* The target_entropy property read with the buffer attribute holding buf:
\* the exception raised (or None), the value returned, the attribute after.
TargetEntropyRead(buf, a) ==
  IF buf.attr = "deleted"
    THEN [exc |-> "AttributeError", ret |-> 0, buf |-> buf]
  ELSE IF buf.attr = "tensor"
    THEN [exc |-> None, ret |-> buf.value, buf |-> buf]
  ELSE IF a.target_entropy.kind = "auto"
    THEN IF ActionSpec(a) = Nil
           THEN [exc |-> "RuntimeError", ret |-> 0, buf |-> BufferDeleted]
           ELSE [exc |-> None, ret |-> -Prod(Get(ActionSpec(a))),
                 buf |-> BufferTensor(-Prod(Get(ActionSpec(a))))]
  ELSE [exc |-> None, ret |-> a.target_entropy.value,
        buf |-> BufferTensor(a.target_entropy.value)]

ReadTargetEntropy ==
  LET r == TargetEntropyRead(target_entropy_buffer, ctor) IN
  /\ target_entropy_buffer' = r.buf
  /\ last' = [NoCall EXCEPT !.op = "target_entropy", !.exc = r.exc,
                            !.ret = r.ret]
  /\ UNCHANGED <<config, log_alpha, tensor_keys, value_type, value_estimator,
                 tensordict>>

\* ------------------------------------------------------------------ alpha

\* log_alpha.clamp(min_log_alpha, max_log_alpha).exp()
Alpha == Exp(Clamp(log_alpha, min_log_alpha, max_log_alpha))

ReadAlpha ==
  /\ last' = [NoCall EXCEPT !.op = "alpha", !.ret = Alpha]
  /\ UNCHANGED <<config, log_alpha, target_entropy_buffer, tensor_keys,
                 value_type, value_estimator, tensordict>>

\* log_alpha is registered as a Parameter unless fixed_alpha: an optimizer
\* step may leave any float in it.
OptimizerStep(l) ==
  /\ ~fixed_alpha
  /\ log_alpha' = l
  /\ last' = [NoCall EXCEPT !.op = "step"]
  /\ UNCHANGED <<config, target_entropy_buffer, tensor_keys, value_type,
                 value_estimator, tensordict>>

\* -------------------------------------------------------- value estimator

\* The keys handed to the estimator's set_keys.
EstimatorKeys(keys) ==
  [value |-> keys.value, reward |-> keys.reward, done |-> keys.done,
   terminated |-> keys.terminated]

\* The estimator class the if/elif chain constructs for a value type, or
\* None where it raises NotImplementedError.
EstimatorClassMutSwapped(vt) ==
  CASE vt = "TD1" -> "TD0Estimator"
    [] vt = "TD0" -> "TD1Estimator"
    [] vt = "GAE" -> None
    [] vt = "TDLambda" -> "TDLambdaEstimator"
    [] OTHER -> None

EstimatorClass(vt) ==
  CASE vt = "TD1" -> "TD1Estimator"
    [] vt = "TD0" -> "TD0Estimator"
    [] vt = "GAE" -> None
    [] vt = "TDLambda" -> "TDLambdaEstimator"
    [] OTHER -> None

\* make_value_estimator(value_type) on the fields (vt, est): the fields after
\* the call and the exception raised.
MakeEstimator(arg, vt, est, keys) ==
  LET t == IF arg = None THEN default_value_estimator ELSE arg IN
  IF EstimatorClass(t) = None
    THEN [value_type |-> t, value_estimator |-> est,
          exc |-> "NotImplementedError"]
    ELSE [value_type |-> t,
          value_estimator |-> Some([class |-> EstimatorClass(t),
                                    keys |-> EstimatorKeys(keys)]),
          exc |-> None]

make_value_estimator(arg) ==
  LET r == MakeEstimator(arg, value_type, value_estimator, tensor_keys) IN
  /\ value_type' = r.value_type
  /\ value_estimator' = r.value_estimator
  /\ last' = [NoCall EXCEPT !.op = "make_value_estimator", !.exc = r.exc,
                            !.inp = arg]
  /\ UNCHANGED <<config, log_alpha, target_entropy_buffer, tensor_keys,
                 tensordict>>

\* set_keys(priority=..., value=...) followed by the hook
\* _forward_value_estimator_keys, which re-keys an installed estimator.
set_keys(p, v) ==
  LET keys == [tensor_keys EXCEPT !.priority = p, !.value = v] IN
  /\ tensor_keys' = keys
  /\ value_estimator' =
       IF value_estimator = Nil THEN Nil
       ELSE Some([Get(value_estimator) EXCEPT !.keys = EstimatorKeys(keys)])
  /\ last' = [NoCall EXCEPT !.op = "set_keys"]
  /\ UNCHANGED <<config, log_alpha, target_entropy_buffer, value_type,
                 tensordict>>


\* ---------------------------------------------------------------- forward

\* torch.randperm(n): a permutation of 0..n-1.
Perms ==
  [n \in 1..(MaxNets + 1) |->
     {p \in [1..n -> 0..(n - 1)] : \A i, j \in 1..n : i # j => p[i] # p[j]}]

\* Python's p[:k].
PySlice(p, k) ==
  IF k >= 0 THEN SubSeq(p, 1, Min(k, Len(p)))
  ELSE SubSeq(p, 1, Max(0, Len(p) + k))

RECURSIVE Insert(_, _)
Insert(x, s) ==
  IF s = <<>> THEN <<x>>
  ELSE IF x <= Head(s) THEN <<x>> \o s
  ELSE <<Head(s)>> \o Insert(x, Tail(s))

\* Tensor.sort()[0]: ascending.
RECURSIVE Sort(_)
Sort(s) == IF s = <<>> THEN <<>> ELSE Insert(Head(s), Sort(Tail(s)))

\* torch.randperm(self.num_qvalue_nets)[: self.sub_sample_len].sort()[0]
SelectedModelsIdxMutUnsorted(perm, k) == PySlice(perm, k)

SelectedModelsIdx(perm, k) == Sort(PySlice(perm, k))

RECURSIVE SeqMin(_)
SeqMin(s) ==
  IF Len(s) = 1 THEN s[1] ELSE Min(Head(s), SeqMin(Tail(s)))

RECURSIVE SeqMax(_)
SeqMax(s) ==
  IF Len(s) = 1 THEN s[1] ELSE Max(Head(s), SeqMax(Tail(s)))

\* The critics whose parameters evaluate the next state:
\* self.target_qvalue_network_params[selected_models_idx].
SelectedQParamsMutAll(sel, n) == [i \in 1..n |-> i - 1]

SelectedQParams(sel, n) == sel

\* (state_action_value - self.alpha * sample_log_prob).min(0)[0], where
\* q_next[i + 1] is target critic i's value of the sampled next action.
NextStateValue(q_next, critics, alpha, log_prob) ==
  SeqMin([j \in 1..Len(critics) |->
            q_next[critics[j] + 1] * One - alpha * log_prob])

\* gamma of default_value_kwargs: 0.99, applied to a next-state value.
Discount(x) == (x \div 100) * 99

\* value_estimator.value_estimate(tensordict): the one-step bootstrapped
\* target from the reward, the terminated flag and the next-state value.
ValueEstimate(reward, terminated, next_state_value) ==
  reward * One + (IF terminated THEN 0 ELSE Discount(next_state_value))

Abs(x) == IF x < 0 THEN -x ELSE x

\* target_value.expand_as(pred_val): one target per trained critic.
ExpandAs(target_value, n) == [i \in 1..n |-> target_value]

\* abs(pred_val - target_value).detach().max(0)[0]
TdError(pred_val, target_value) ==
  SeqMax([i \in 1..Len(pred_val) |-> Abs(pred_val[i] * One - target_value)])

\* The key tensordict_save.set writes the priority under.
PriorityWriteKey(keys) == "td_error"

\* self.value_estimator: installs the default estimator when none is set.
EnsureEstimator(vt, est, keys) ==
  IF est = Nil THEN MakeEstimator(None, vt, est, keys)
  ELSE [value_type |-> vt, value_estimator |-> est, exc |-> None]

\* out_keys
OutKeys == {"loss_actor", "loss_qvalue", "loss_alpha", "alpha", "entropy"}

\* name.startswith("loss_")
StartsWithLoss(name) == name \in {"loss_actor", "loss_qvalue", "loss_alpha"}

\* _reduce(value, reduction): the shape left and the reduction applied.
Reduce(shape, red) ==
  [shape |-> IF red = "none" THEN shape ELSE <<>>, reduce |-> red]

AsIs(shape) == [shape |-> shape, reduce |-> "as_is"]

\* td_out after named_apply, as shapes.
TdOut(red, actor_shape, qval_shape, lp_shape) ==
  LET raw == [name \in OutKeys |->
                CASE name = "loss_actor" -> actor_shape
                  [] name = "loss_qvalue" -> qval_shape
                  [] name = "loss_alpha" -> lp_shape
                  [] OTHER -> <<>>]
  IN [name \in OutKeys |->
        IF StartsWithLoss(name) THEN Reduce(raw[name], red)
        ELSE AsIs(raw[name])]

\* The exception forward ends with, given the steps' outcomes in order:
\* _loss_alpha's gradient check, its read of target_entropy, the shape check.
ForwardExc(grad_ok, te_exc, actor_shape, qval_shape) ==
  IF ~grad_ok THEN "RuntimeError"
  ELSE IF te_exc # None THEN te_exc
  ELSE IF qval_shape # actor_shape THEN "RuntimeError"
  ELSE None

\* forward(tensordict).  perm: the permutation torch.randperm draws.  inp:
\* what the networks return on the batch (per-critic values, log-probability,
\* loss shapes) and the batch's reward and terminated flag.
forward(perm, inp) ==
  LET alpha == Alpha
      sel == SelectedModelsIdx(perm, sub_sample_len)
      nsv == NextStateValue(inp.q_next, SelectedQParams(sel, num_qvalue_nets),
                            alpha, inp.log_prob)
      est == EnsureEstimator(value_type, value_estimator, tensor_keys)
      target_value == ValueEstimate(inp.reward, inp.terminated, nsv)
      td_error == TdError(inp.pred_val, target_value)
      te == IF inp.grad_ok
              THEN TargetEntropyRead(target_entropy_buffer, ctor)
              ELSE [exc |-> None, ret |-> 0, buf |-> target_entropy_buffer]
      exc == ForwardExc(inp.grad_ok, te.exc, inp.actor_shape, inp.qval_shape)
  IN
  /\ value_type' = est.value_type
  /\ value_estimator' = est.value_estimator
  /\ tensordict' = {<<PriorityWriteKey(tensor_keys), td_error>>}
  /\ target_entropy_buffer' = te.buf
  /\ last' = [op |-> "forward", exc |-> exc, ret |-> 0, inp |-> inp,
              fwd |-> [selected_models_idx |-> sel,
                       next_state_value |-> nsv,
                       target |-> ExpandAs(target_value, num_qvalue_nets),
                       td_error |-> td_error,
                       alpha |-> alpha,
                       alpha_loss_coef |->
                         Exp(Clamp(log_alpha, min_log_alpha, max_log_alpha)),
                       out |-> IF exc = None
                                 THEN Some(TdOut(reduction, inp.actor_shape,
                                                 inp.qval_shape,
                                                 inp.lp_shape))
                                 ELSE Nil]]
  /\ UNCHANGED <<config, log_alpha, tensor_keys>>


\* ------------------------------------------------------------------ inputs

\* What a critic returns on a batch element, in units of 1.0.
QValues == {0, 1}

\* Shapes of at most MaxDims dimensions, each of size 1..MaxDims.
Shapes == UNION {[1..d -> 1..MaxDims] : d \in 0..MaxDims}

\* The identity permutation.
Identity(n) == [i \in 1..n |-> i - 1]

\* A batch on which every network returns 0, with matching loss shapes.
BaseInput(n) ==
  [q_next |-> [i \in 1..n |-> 0],
   pred_val |-> [i \in 1..n |-> 0], log_prob |-> -1, reward |-> 0,
   terminated |-> FALSE, grad_ok |-> TRUE, actor_shape |-> <<n, 2>>,
   qval_shape |-> <<n, 2>>, lp_shape |-> <<2>>]

PriorityKeys == {"td_error", "priority"}
ValueKeys == {"state_value", "value"}

\* ---------------------------------------------------------- specifications

\* Construction with and without delay_qvalue, on both classes.
InitDelay ==
  \E c \in Classes, d \in {Nil, Some(TRUE), Some(FALSE)},
     n \in 1..MaxNets, r \in {None, "none", "mean", "sum"} :
    Construct(c, [BaseArgs EXCEPT !.delay_qvalue = d,
                                     !.num_qvalue_nets = n,
                                     !.reduction = r])

NextDelay ==
  \/ ReadAlpha
  \/ ReadTargetEntropy
  \/ \E t \in {None} \cup ValueEstimators : make_value_estimator(t)
  \/ forward(Identity(num_qvalue_nets), BaseInput(num_qvalue_nets))

SpecDelay == InitDelay /\ [][NextDelay]_vars

\* Value estimators and keys.
InitEstimator ==
  \E c \in Classes :
    Construct(c, [BaseArgs EXCEPT !.num_qvalue_nets = 2])

NextEstimator ==
  \/ \E t \in {None} \cup ValueEstimators : make_value_estimator(t)
  \/ \E k \in PriorityKeys, v \in ValueKeys : set_keys(k, v)
  \/ \E r \in 0..1 :
       forward(Identity(num_qvalue_nets),
               [BaseInput(num_qvalue_nets) EXCEPT !.reward = r])

SpecEstimator == InitEstimator /\ [][NextEstimator]_vars

\* The target entropy and forward's error paths.
InitEntropy ==
  \E te \in {Auto, Number(-3)},
     given \in {Nil} \cup {Some(sh) : sh \in Shapes},
     actor \in {Nil} \cup {Some(sh) : sh \in Shapes},
     r \in {None, "none"} :
    Construct("REDQLoss_deprecated",
              [BaseArgs EXCEPT !.target_entropy = te,
                                  !.action_spec = given,
                                  !.actor_spec = actor,
                                  !.reduction = r])

NextEntropy ==
  \/ ReadTargetEntropy
  \/ \E g \in BOOLEAN, a, q \in 1..2 :
       forward(Identity(num_qvalue_nets),
               [BaseInput(num_qvalue_nets) EXCEPT
                  !.grad_ok = g,
                  !.actor_shape = <<num_qvalue_nets, a>>,
                  !.qval_shape = <<num_qvalue_nets, q>>,
                  !.lp_shape = <<a>>])

SpecEntropy == InitEntropy /\ [][NextEntropy]_vars

\* The priority key.
InitPriority ==
  \E k \in {None} \cup PriorityKeys, n \in 1..MaxNets :
    Construct("REDQLoss_deprecated",
              [BaseArgs EXCEPT !.priority_key = k,
                                  !.num_qvalue_nets = n])

NextPriority ==
  \/ \E k \in PriorityKeys : set_keys(k, tensor_keys.value)
  \/ \E pv \in [1..num_qvalue_nets -> QValues], r \in 0..1 :
       forward(Identity(num_qvalue_nets),
               [BaseInput(num_qvalue_nets) EXCEPT !.pred_val = pv,
                                                  !.reward = r])

SpecPriority == InitPriority /\ [][NextPriority]_vars

\* The critic subsample.
InitSubsample ==
  \E n \in 1..MaxNets, k \in (-1)..MaxNets :
    Construct("REDQLoss_deprecated",
              [BaseArgs EXCEPT !.num_qvalue_nets = n,
                                  !.sub_sample_len = k])

NextSubsample ==
  \E p \in Perms[num_qvalue_nets], qn \in [1..num_qvalue_nets -> QValues] :
    forward(p, [BaseInput(num_qvalue_nets) EXCEPT !.q_next = qn])

SpecSubsample == InitSubsample /\ [][NextSubsample]_vars

\* The entropy coefficient.
InitAlpha ==
  \E lo, hi, a0 \in AlphaGrid, f \in BOOLEAN :
    Construct("REDQLoss_deprecated",
              [BaseArgs EXCEPT !.min_alpha = lo, !.max_alpha = hi,
                                  !.alpha_init = a0, !.fixed_alpha = f,
                                  !.num_qvalue_nets = 1])

NextAlpha ==
  \/ \E l \in LogGrid : OptimizerStep(l)
  \/ ReadAlpha
  \/ forward(Identity(num_qvalue_nets), BaseInput(num_qvalue_nets))

SpecAlpha == InitAlpha /\ [][NextAlpha]_vars


\* ------------------------------------------------------------------ claims

Called(op) == last.op = op

Range(s) == {s[i] : i \in DOMAIN s}

\* C1: each evaluation of the Q-value loss selects exactly
\* max(1, min(sub_sample_len, num_qvalue_nets - 1)) critic indices, pairwise
\* distinct, all within 0..num_qvalue_nets-1, in ascending order.
C1_SubsampleIndices ==
  Called("forward") =>
    LET sel == last.fwd.selected_models_idx
        n == ctor.num_qvalue_nets
    IN /\ Len(sel) = Max(1, Min(ctor.sub_sample_len, n - 1))
       /\ \A i \in 1..Len(sel) : sel[i] \in 0..(n - 1)
       /\ \A i, j \in 1..Len(sel) : i < j => sel[i] < sel[j]

\* A forward call on three critics where sub_sample_len = 3 was capped to 2
\* and the two indices drawn are not adjacent.
C1_Witness ==
  /\ Called("forward")
  /\ ctor.num_qvalue_nets = 3
  /\ ctor.sub_sample_len = 3
  /\ last.fwd.selected_models_idx = <<0, 2>>

\* C9: the next-state value is the minimum, over the subsampled target
\* critics only, of (critic value - alpha * log-probability), and that one
\* value is the target of every trained critic.
C9_NextStateValue ==
  Called("forward") =>
    LET f == last.fwd
        vals == {last.inp.q_next[i + 1] * One - f.alpha * last.inp.log_prob :
                   i \in Range(f.selected_models_idx)}
    IN /\ f.next_state_value \in vals
       /\ \A v \in vals : f.next_state_value <= v
       /\ Len(f.target) = ctor.num_qvalue_nets
       /\ \A i \in 1..Len(f.target) :
            f.target[i] = ValueEstimate(last.inp.reward, last.inp.terminated,
                                        f.next_state_value)

\* A forward call where a critic outside the subsample returns less than
\* every critic inside it.
C9_Witness ==
  /\ Called("forward")
  /\ ctor.num_qvalue_nets = 3
  /\ \E i \in 0..2 :
       /\ i \notin Range(last.fwd.selected_models_idx)
       /\ last.inp.q_next[i + 1] * One - last.fwd.alpha * last.inp.log_prob
            < last.fwd.next_state_value

BoundsOrdered == ctor.min_alpha <= ctor.max_alpha

\* The coefficient the last call produced: the alpha property's value, or the
\* factor of the alpha loss when forward got as far as computing it.
AlphaProduced ==
  \/ Called("alpha")
  \/ Called("forward") /\ last.exc = None

AlphaValue == IF Called("alpha") THEN last.ret ELSE last.fwd.alpha_loss_coef

C3_DefaultNotDelayed ==
  (cls = "REDQLoss_deprecated" /\ ctor.delay_qvalue = Nil) =>
    (~delay_qvalue /\ ~target_params_created)

\* C4: constructed without delay_qvalue, DoubleREDQLoss_deprecated is delayed,
\* as its class flag says, and this is its only difference from
\* REDQLoss_deprecated, which is not delayed.
C4_SubclassOverridesDefault ==
  ctor.delay_qvalue = Nil =>
    (delay_qvalue <=> ClassDelayQvalue(cls) = Some(TRUE))

\* C5: forward writes max over critics of |predicted - target| into the input
\* tensordict under tensor_keys.priority.
C5_PriorityUnderConfiguredKey ==
  Called("forward") =>
    <<tensor_keys.priority,
      SeqMax([i \in 1..num_qvalue_nets |->
                Abs(last.inp.pred_val[i] * One - last.fwd.target[i])])>>
      \in tensordict

\* The estimator class a value type stands for.
ClassOf(t) ==
  CASE t = "TD0" -> "TD0Estimator"
    [] t = "TD1" -> "TD1Estimator"
    [] t = "TDLambda" -> "TDLambdaEstimator"
    [] OTHER -> None

Requested == IF last'.inp = None THEN "TD0" ELSE last'.inp

\* C6: make_value_estimator installs TD0 for None or TD0, TD1 for TD1,
\* TD-lambda for TDLambda, each configured with the module's current value,
\* reward, done and terminated keys; for GAE and any other type it raises
\* NotImplementedError and installs no estimator.
C6_EstimatorMatchesType ==
  [][last'.op = "make_value_estimator" =>
       IF Requested \in {"TD0", "TD1", "TDLambda"}
         THEN /\ last'.exc = None
              /\ value_estimator' =
                   Some([class |-> ClassOf(Requested),
                         keys |-> [value |-> tensor_keys'.value,
                                   reward |-> tensor_keys'.reward,
                                   done |-> tensor_keys'.done,
                                   terminated |-> tensor_keys'.terminated]])
         ELSE /\ last'.exc = "NotImplementedError"
              /\ value_estimator' = value_estimator]_vars

\* make_value_estimator(TD1) has just replaced the estimator, after the value
\* key was renamed.
C6_Witness ==
  /\ Called("make_value_estimator")
  /\ last.inp = "TD1"
  /\ tensor_keys.value = "value"
  /\ value_estimator # Nil
  /\ Get(value_estimator).class = "TD1Estimator"
  /\ Get(value_estimator).keys.value = "value"

\* C7: reading target_entropy yields the number given; for "auto", minus the
\* product of the action spec's shape (the action_spec argument, else the
\* actor's spec); for "auto" with neither spec it raises RuntimeError.
C7_TargetEntropy ==
  Called("target_entropy") =>
    IF ctor.target_entropy.kind = "number"
      THEN last.exc = None /\ last.ret = ctor.target_entropy.value
    ELSE IF ctor.action_spec # Nil
      THEN last.exc = None /\ last.ret = -Prod(Get(ctor.action_spec))
    ELSE IF ctor.actor_spec # Nil
      THEN last.exc = None /\ last.ret = -Prod(Get(ctor.actor_spec))
    ELSE last.exc = "RuntimeError"

\* C8: forward raises RuntimeError whenever the two unreduced losses differ
\* in shape; otherwise its result has exactly the entries loss_actor,
\* loss_qvalue, loss_alpha, alpha and entropy, of which only the loss_ entries
\* are reduced, by the reduction setting ("mean" when none was given).
C8_ShapeCheckAndResult ==
  Called("forward") =>
    /\ last.inp.qval_shape # last.inp.actor_shape =>
         last.exc = "RuntimeError"
    /\ (last.inp.qval_shape = last.inp.actor_shape /\ last.exc = None) =>
         LET out == Get(last.fwd.out)
             red == IF ctor.reduction = None THEN "mean" ELSE ctor.reduction
         IN /\ DOMAIN out =
                 {"loss_actor", "loss_qvalue", "loss_alpha", "alpha", "entropy"}
            /\ \A k \in {"loss_actor", "loss_qvalue", "loss_alpha"} :
                 out[k].reduce = red
            /\ \A k \in {"alpha", "entropy"} : out[k].reduce = "as_is"

\* C10: the recorded value_type is the type of the estimator installed, also
\* after make_value_estimator calls that raise NotImplementedError.
C10_ValueTypeMatchesInstalled ==
  value_estimator # Nil => ClassOf(value_type) = Get(value_estimator).class


====
